---- MODULE Spec2Model ----
(***************************************************************************)
(* Model of frontend/src/scriptParser.ts: parseScriptToScenes, parseBlock  *)
(* and getLabelContent.                                                    *)
(*                                                                         *)
(* A string is a sequence of tokens.  A token is a piece of text that the  *)
(* regular expressions of the parser read as a unit: a newline, a blank,   *)
(* a star, a colon, a digit, the word "Scene", one of the label words, a   *)
(* parenthetical "(English)", or a prose word.  Concatenating sequences is *)
(* concatenating strings.  Every regular expression of the source is       *)
(* translated to a matcher over tokens that follows the backtracking order *)
(* of the JavaScript engine (greedy quantifiers, leftmost match).          *)
(***************************************************************************)
EXTENDS Integers, Sequences, FiniteSets, TLC

\* the parser: the call of parseScriptToScenes in progress
VARIABLES tpl, raw, pc, parts, i, scenes, log

\* the App component: its useState values, and the response that the last
\* step received from the backend
VARIABLES runId, prompt, options, script, status, error, response

\* api.ts: the item of localStorage under SESSION_STORAGE_KEY, how localStorage
\* behaves in this browser, the headers of the requests sent so far, the
\* timer of the postJson call in progress and how the last call settled
VARIABLES stored, storage, sent, timeoutId, result

parserVars == <<tpl, raw, pc, parts, i, scenes, log>>

appVars == <<runId, prompt, options, script, status, error, response>>

apiVars == <<stored, storage, sent, timeoutId, result>>

vars ==
  <<tpl, raw, pc, parts, i, scenes, log,
    runId, prompt, options, script, status, error, response,
    stored, storage, sent, timeoutId, result>>

(* ----------------------------- bounds --------------------------------- *)

\* lines of a free-form script
MaxLines == 3
\* scenes of a plain-format or markdown-format script
MaxScenes == 2
\* words of a field text
MaxWords == 1
\* calls of parseScriptToScenes one caller makes
MaxCalls == 3
\* label lines of a bulleted block
MaxLabels == 3
\* run ids the backend issues
MaxRuns == 2
\* requests one page sends
MaxRequests == 3
\* values randomUUID can give, for each variant character
MaxUuids == 2

(* ----------------------------- tokens --------------------------------- *)

NL == "\n"
SP == " "
STAR == "*"
COLON == ":"
\* the placeholder, U+2014 EM DASH, as one token
PLACEHOLDER == <<"[em dash]">>

Digits == {"1", "2", "3"}
Words == {"a", "b"}

\* the "i" flag of every regular expression: case-insensitive matching
Fold(t) ==
  CASE t = "scene" -> "Scene"
    [] t = "mood" -> "Mood"
    [] OTHER -> t

IsWs(t) == t \in {SP, NL}
IsDigit(t) == t \in Digits

\* the label alternation of NEXT_LABEL_OR_SCENE
BoundaryWords ==
  {"Visual", "Visuals", "Visual direction", "Narration", "Mood",
   "Camera/shot cues", "Transition", "Cinematic"}

(* --------------------------- string helpers ---------------------------- *)

\* \s* read greedily from position p: the first position that is not whitespace
RECURSIVE SkipWs(_, _)
SkipWs(s, p) ==
  IF p <= Len(s) /\ IsWs(s[p]) THEN SkipWs(s, p + 1) ELSE p

\* \d* read greedily from position p
RECURSIVE SkipDigits(_, _)
SkipDigits(s, p) ==
  IF p <= Len(s) /\ IsDigit(s[p]) THEN SkipDigits(s, p + 1) ELSE p

\* [^\n]* read greedily from position p
RECURSIVE SkipLine(_, _)
SkipLine(s, p) ==
  IF p <= Len(s) /\ s[p] # NL THEN SkipLine(s, p + 1) ELSE p

RECURSIVE LastNonWs(_, _)
LastNonWs(s, p) ==
  IF p >= 1 /\ IsWs(s[p]) THEN LastNonWs(s, p - 1) ELSE p

\* String.prototype.trim
Trim(s) == SubSeq(s, SkipWs(s, 1), LastNonWs(s, Len(s)))

(* ------------------------- regular expressions ------------------------- *)

\* \s*\*{0,2}Scene\s+\d+ matched at position p: the position after the
\* digits, or 0 when there is no match
HeadingEnd(s, p) ==
  LET a == SkipWs(s, p)
      c == IF a <= Len(s) /\ s[a] = STAR
           THEN IF a + 1 <= Len(s) /\ s[a + 1] = STAR THEN 2 ELSE 1
           ELSE 0
      b == a + c
  IN IF b + 1 <= Len(s) /\ Fold(s[b]) = "Scene" /\ IsWs(s[b + 1])
     THEN LET d == SkipWs(s, b + 1)
          IN IF d <= Len(s) /\ IsDigit(s[d]) THEN SkipDigits(s, d) ELSE 0
     ELSE 0

\* SCENE_SPLIT without its leading \n: (?=\s*\*{0,2}Scene\s+\d+\s*:?)
SceneSplitAnywhere(s, q) ==
  q < Len(s) /\ HeadingEnd(s, q + 1) # 0

\* SCENE_SPLIT, the lookahead (?=\n\s*\*{0,2}Scene\s+\d+\s*:?), tried at the
\* 0-based position q
SCENE_SPLIT(s, q) ==
  q < Len(s) /\ s[q + 1] = NL /\ HeadingEnd(s, q + 2) # 0

\* raw.split(SCENE_SPLIT): p is the start of the current piece, q the position
\* the expression is tried at; an empty match at q = p does not split
RECURSIVE SplitFrom(_, _, _, _)
SplitFrom(s, p, q, acc) ==
  IF q >= Len(s) THEN Append(acc, SubSeq(s, p + 1, Len(s)))
  ELSE IF SCENE_SPLIT(s, q) /\ q # p
       THEN SplitFrom(s, q, q, Append(acc, SubSeq(s, p + 1, q)))
       ELSE SplitFrom(s, p, q + 1, acc)

Split(s) == SplitFrom(s, 0, 0, <<>>)

\* the filter without the emphasis markers: /^\s*Scene\s+\d+/i.test(p)
StartsWithPlainHeading(p) ==
  HeadingEnd(p, 1) # 0 /\ p[SkipWs(p, 1)] # STAR

\* the filter /^\s*\*{0,2}Scene\s+\d+/i.test(p)
StartsWithHeading(p) == HeadingEnd(p, 1) # 0

\* lines 70-72 without the filter: every piece is kept
RECURSIVE TrimOnly(_)
TrimOnly(ps) ==
  IF ps = <<>> THEN <<>> ELSE <<Trim(Head(ps))>> \o TrimOnly(Tail(ps))

\* lines 70-72: .map((p) => p.trim()).filter(...)
RECURSIVE TrimAndFilter(_)
TrimAndFilter(ps) ==
  IF ps = <<>> THEN <<>>
  ELSE LET t == Trim(Head(ps))
       IN IF StartsWithHeading(t) THEN <<t>> \o TrimAndFilter(Tail(ps))
          ELSE TrimAndFilter(Tail(ps))

\* The label of a field: the part of its regular expression between \n?\s*
\* and the \s* after the colon, matched with the label word at position k.
\* The position after the colon, or 0 when there is no match.
\*   visuals     (?:Visuals?|Visual direction):
\*   narration   Narration(?:\s*\([^)]*\))?:
\*   mood        Mood:
\*   camera      Camera\/shot cues?:
\*   transition  Transition:
\*   cinematic   Cinematic(?:\s+Direction)?:
ColonAt(s, p) == IF p <= Len(s) /\ s[p] = COLON THEN p + 1 ELSE 0

LabelEnd(s, k, field) ==
  LET w == Fold(s[k])
  IN CASE field = "visuals" ->
            IF w \in {"Visual", "Visuals", "Visual direction"}
            THEN ColonAt(s, k + 1) ELSE 0
       [] field = "narration" ->
            IF w = "Narration"
            THEN LET a == SkipWs(s, k + 1)
                 IN IF a <= Len(s) /\ s[a] = "(English)" /\ ColonAt(s, a + 1) # 0
                    THEN ColonAt(s, a + 1)
                    ELSE ColonAt(s, k + 1)
            ELSE 0
       [] field = "mood" ->
            IF w = "Mood" THEN ColonAt(s, k + 1) ELSE 0
       [] field = "camera" ->
            IF w \in {"Camera/shot cue", "Camera/shot cues"}
            THEN ColonAt(s, k + 1) ELSE 0
       [] field = "transition" ->
            IF w = "Transition" THEN ColonAt(s, k + 1) ELSE 0
       [] field = "cinematic" ->
            IF w = "Cinematic"
            THEN LET a == SkipWs(s, k + 1)
                 IN IF a > k + 1 /\ a <= Len(s) /\ s[a] = "Direction"
                       /\ ColonAt(s, a + 1) # 0
                    THEN ColonAt(s, a + 1)
                    ELSE ColonAt(s, k + 1)
            ELSE 0
       [] OTHER -> 0

\* block.match(labelPattern): the leftmost match of \n?\s*<label>:\s*.  A
\* match that starts at p reads whitespace up to the label word, so the
\* leftmost match is the one of the first label word that its colon follows.
\* The result is match.index + match[0].length as a 1-based position, or 0
\* for null.
RECURSIVE FirstLabel(_, _, _)
FirstLabel(s, k, field) ==
  IF k > Len(s) THEN 0
  ELSE IF LabelEnd(s, k, field) # 0 THEN SkipWs(s, LabelEnd(s, k, field))
       ELSE FirstLabel(s, k + 1, field)

\* block.match(labelPattern) with a missing label read as a match at the start
\* of the block
MatchLabelOrStart(s, field) ==
  IF FirstLabel(s, 1, field) = 0 THEN 1 ELSE FirstLabel(s, 1, field)

MatchLabel(s, field) == FirstLabel(s, 1, field)

\* NEXT_LABEL_OR_SCENE matched at position p:
\*   \n\s*(?:\*\s+(?:Visuals?|Visual direction|Narration|Mood|
\*                 Camera\/shot cues|Transition|Cinematic)|\*\*Scene\s+\d+)
NextLabelOrSceneAt(s, p) ==
  /\ p <= Len(s)
  /\ s[p] = NL
  /\ LET a == SkipWs(s, p + 1)
     IN /\ a + 1 <= Len(s)
        /\ s[a] = STAR
        /\ \/ /\ IsWs(s[a + 1])
              /\ LET b == SkipWs(s, a + 1)
                 IN b <= Len(s) /\ Fold(s[b]) \in BoundaryWords
           \/ /\ s[a + 1] = STAR
              /\ a + 3 <= Len(s)
              /\ Fold(s[a + 2]) = "Scene"
              /\ IsWs(s[a + 3])
              /\ LET d == SkipWs(s, a + 3)
                 IN d <= Len(s) /\ IsDigit(s[d])

\* rest.match(NEXT_LABEL_OR_SCENE): the position of the leftmost match, or 0
\* for null
RECURSIVE NEXT_LABEL_OR_SCENE(_, _)
NEXT_LABEL_OR_SCENE(s, p) ==
  IF p > Len(s) THEN 0
  ELSE IF NextLabelOrSceneAt(s, p) THEN p
       ELSE NEXT_LABEL_OR_SCENE(s, p + 1)

(* ---------------------------- the parser ------------------------------ *)

\* what a call that dereferences null evaluates to
TypeError == <<"TypeError">>

\* getLabelContent without its guard
IsNullNever(m) == FALSE

\* line 24: if (!match || match.index == null) return ""
IsNull(m) == m = 0

getLabelContent(block, field) ==
  LET match == MatchLabel(block, field)
  IN IF IsNull(match) THEN <<>>
     ELSE IF match = 0 THEN TypeError
     ELSE LET rest == SubSeq(block, match, Len(block))
              nextMatch == NEXT_LABEL_OR_SCENE(rest, 1)
              end == IF nextMatch # 0 THEN nextMatch - 1 ELSE Len(rest)
          IN Trim(SubSeq(rest, 1, end))

\* block.replace(/^\s*\*{0,2}Scene\s+\d+\s*:?\s*[^\n]*/i, "").trim()
StripHeading(block) ==
  LET e1 == HeadingEnd(block, 1)
  IN IF e1 = 0 THEN Trim(block)
     ELSE LET e2 == SkipWs(block, e1)
              e3 == IF e2 <= Len(block) /\ block[e2] = COLON THEN e2 + 1 ELSE e2
              e4 == SkipWs(block, e3)
              e5 == SkipLine(block, e4)
          IN Trim(SubSeq(block, e5, Len(block)))

\* [a, b, c].filter(Boolean).join("")
RECURSIVE JoinWithoutSpace(_)
JoinWithoutSpace(xs) ==
  IF xs = <<>> THEN <<>> ELSE Head(xs) \o JoinWithoutSpace(Tail(xs))

\* [a, b, c].filter(Boolean).join(" ")
RECURSIVE JoinNonEmpty(_)
JoinNonEmpty(xs) ==
  IF xs = <<>> THEN <<>>
  ELSE LET r == JoinNonEmpty(Tail(xs))
       IN IF Head(xs) = <<>> THEN r
          ELSE IF r = <<>> THEN Head(xs)
          ELSE Head(xs) \o <<SP>> \o r

\* a field left as extracted
OrEmpty(x) == x

\* x || PLACEHOLDER
OrPlaceholder(x) == IF x = <<>> THEN PLACEHOLDER ELSE x

\* the title `Scene ${i}` of the loop index, not of i + 1
SceneTitleFromZero(n) == [word |-> "Scene", n |-> n - 1]

\* the title `Scene ${sceneIndex}`
SceneTitle(n) == [word |-> "Scene", n |-> n]

\* the title of the fallback scene, "Script"
ScriptTitle == [word |-> "Script", n |-> 0]

\* parseBlock joining the three texts in the order camera cues, transition,
\* explicit cinematic
parseBlockCameraFirst(block, sceneIndex) ==
  LET body == StripHeading(block)
      visuals == getLabelContent(body, "visuals")
      narration == getLabelContent(body, "narration")
      mood == getLabelContent(body, "mood")
      cameraCues == getLabelContent(body, "camera")
      transition == getLabelContent(body, "transition")
      cinematicExplicit == getLabelContent(body, "cinematic")
      cinematicDirection == JoinNonEmpty(<<cameraCues, transition, cinematicExplicit>>)
  IN IF TypeError \in {visuals, narration, mood, cameraCues, transition, cinematicExplicit}
     THEN [title |-> SceneTitle(sceneIndex), visuals |-> TypeError,
           narration |-> TypeError, mood |-> TypeError,
           cinematicDirection |-> TypeError]
     ELSE [title |-> SceneTitle(sceneIndex),
           visuals |-> OrPlaceholder(visuals),
           narration |-> OrPlaceholder(narration),
           mood |-> OrPlaceholder(mood),
           cinematicDirection |-> OrPlaceholder(cinematicDirection)]

\* lines 32-64
parseBlock(block, sceneIndex) ==
  LET body == StripHeading(block)
      visuals == getLabelContent(body, "visuals")
      narration == getLabelContent(body, "narration")
      mood == getLabelContent(body, "mood")
      cameraCues == getLabelContent(body, "camera")
      transition == getLabelContent(body, "transition")
      cinematicExplicit == getLabelContent(body, "cinematic")
      cinematicDirection == JoinNonEmpty(<<cinematicExplicit, cameraCues, transition>>)
  IN IF TypeError \in {visuals, narration, mood, cameraCues, transition, cinematicExplicit}
     THEN [title |-> SceneTitle(sceneIndex), visuals |-> TypeError,
           narration |-> TypeError, mood |-> TypeError,
           cinematicDirection |-> TypeError]
     ELSE [title |-> SceneTitle(sceneIndex),
           visuals |-> OrPlaceholder(visuals),
           narration |-> OrPlaceholder(narration),
           mood |-> OrPlaceholder(mood),
           cinematicDirection |-> OrPlaceholder(cinematicDirection)]

\* the fallback scene with narration: raw
FallbackSceneUntrimmed(s) ==
  [title |-> [word |-> "Script", n |-> 0], visuals |-> PLACEHOLDER, narration |-> s,
   mood |-> PLACEHOLDER, cinematicDirection |-> PLACEHOLDER]

FallbackScene(s) ==
  [title |-> ScriptTitle, visuals |-> PLACEHOLDER, narration |-> Trim(s),
   mood |-> PLACEHOLDER, cinematicDirection |-> PLACEHOLDER]

(* ----------------------------- the inputs ------------------------------ *)

DigitOf(n) == <<"1", "2", "3", "4">>[n]

RECURSIVE JoinLines(_)
JoinLines(ls) ==
  IF ls = <<>> THEN <<>>
  ELSE IF Len(ls) = 1 THEN Head(ls)
  ELSE Head(ls) \o <<NL>> \o JoinLines(Tail(ls))

\* the lines a free-form script is made of
FreeLines ==
  { <<>>,
    <<"a">>,
    <<"Scene", SP, "1", COLON>>,
    <<"Scene", SP, "2">>,
    <<"scene", SP, "1", COLON>>,
    <<STAR, STAR, "Scene", SP, "1", COLON, SP, "a", STAR, STAR>>,
    <<SP, "Scene", SP, "3", COLON, SP, "a">>,
    <<"a", SP, "Scene", SP, "2">>,
    <<STAR, SP, "Mood", COLON, SP, "m">>,
    <<"Mood", COLON, SP, "m", SP, "m">>,
    <<STAR, SP, "Narration", COLON, SP, "n">>,
    <<STAR, SP, "Transition", COLON, SP, "t", SP, "Scene", SP, "2", SP, "t">>,
    <<STAR, SP, "Mood", COLON>>,
    <<STAR, STAR, "Scene", SP, "2", COLON, STAR, STAR>> }

\* the sequences over S of length at most n
SeqsUpTo(S, n) == UNION {[1..k -> S] : k \in 0..n}

\* the texts of a field: 1..MaxWords times its word, or its word and a
\* mention of a scene in running text
RECURSIVE Repeat(_, _)
Repeat(w, k) == IF k = 1 THEN <<w>> ELSE <<w, SP>> \o Repeat(w, k - 1)

Texts(w) ==
  {Repeat(w, k) : k \in 1..MaxWords} \cup {<<w, SP, "scene", SP, "2">>}

NoText == <<>>

SceneFields(v, n, m, cam, tr, cin) ==
  [visuals |-> v, narration |-> n, mood |-> m, camera |-> cam,
   transition |-> tr, cinematic |-> cin]

\* every field of the scene has k words
UniformPlain(k) ==
  SceneFields(Repeat("v", k), Repeat("n", k), Repeat("m", k), NoText, NoText,
              Repeat("c", k))

UniformMd(k) ==
  SceneFields(Repeat("v", k), Repeat("n", k), Repeat("m", k), Repeat("k", k),
              Repeat("t", k), NoText)

PlainScenes ==
  {<<SceneFields(v, n, m, NoText, NoText, c)>> :
      v \in Texts("v"), n \in Texts("n"), m \in Texts("m"), c \in Texts("c")}
  \cup {q \in SeqsUpTo({UniformPlain(k) : k \in 1..MaxWords}, MaxScenes) : Len(q) >= 2}

MdScenes ==
  {<<SceneFields(v, n, m, k, t, NoText)>> :
      v \in Texts("v"), n \in Texts("n"), m \in Texts("m"), k \in Texts("k"),
      t \in Texts("t")}
  \cup {q \in SeqsUpTo({UniformMd(k) : k \in 1..MaxWords}, MaxScenes) : Len(q) >= 2}

\* scripts whose narration sentence has "mood:" in it, with and without a Mood
\* line after it
MidLineScripts ==
  { << <<STAR, STAR, "Scene", SP, "1", COLON, SP, "Opening", STAR, STAR>>,
       <<STAR, SP, "Narration", COLON, SP, "n", SP, "mood", COLON, SP, "b">>,
       <<STAR, SP, "Mood", COLON, SP, "m">> >>,
    << <<STAR, STAR, "Scene", SP, "1", COLON, SP, "Opening", STAR, STAR>>,
       <<STAR, SP, "Narration", COLON, SP, "n", SP, "mood", COLON, SP, "b">> >> }

\* the fields a label line can be of
LabelKinds == {"visuals", "narration", "mood", "camera", "transition", "cinematic"}

Templates ==
  {[fmt |-> "free", lines |-> ls, fields |-> <<>>] : ls \in SeqsUpTo(FreeLines, MaxLines)}
  \cup {[fmt |-> "plain", lines |-> <<>>, fields |-> f] : f \in PlainScenes}
  \cup {[fmt |-> "md", lines |-> <<>>, fields |-> f] : f \in MdScenes}
  \cup {[fmt |-> "labels", lines |-> ls, fields |-> <<>>] :
          ls \in SeqsUpTo({<<f>> : f \in LabelKinds}, MaxLabels)}
  \cup {[fmt |-> "free", lines |-> ls, fields |-> <<>>] : ls \in MidLineScripts}

\* "Scene N:\nVisuals: ...\nNarration: ...\nMood: ...\nCinematic: ..."
PlainScene(f, n) ==
  <<<<"Scene", SP, DigitOf(n), COLON>>,
    <<"Visuals", COLON, SP>> \o f.visuals,
    <<"Narration", COLON, SP>> \o f.narration,
    <<"Mood", COLON, SP>> \o f.mood,
    <<"Cinematic", COLON, SP>> \o f.cinematic>>

\* "**Scene N: Title**\n* Visual direction: ...\n* Narration (English): ...\n
\*  * Mood: ...\n* Camera/shot cues: ...\n* Transition: ..."
MdScene(f, n) ==
  <<<<STAR, STAR, "Scene", SP, DigitOf(n), COLON, SP, "Opening", STAR, STAR>>,
    <<STAR, SP, "Visual direction", COLON, SP>> \o f.visuals,
    <<STAR, SP, "Narration", SP, "(English)", COLON, SP>> \o f.narration,
    <<STAR, SP, "Mood", COLON, SP>> \o f.mood,
    <<STAR, SP, "Camera/shot cues", COLON, SP>> \o f.camera,
    <<STAR, SP, "Transition", COLON, SP>> \o f.transition>>

RECURSIVE SceneLines(_, _, _)
SceneLines(fmt, fs, n) ==
  IF n > Len(fs) THEN <<>>
  ELSE (IF fmt = "plain" THEN PlainScene(fs[n], n) ELSE MdScene(fs[n], n))
       \o SceneLines(fmt, fs, n + 1)

\* the label word a bulleted line of a field is written with
LabelWord(f) ==
  CASE f = "visuals" -> "Visuals"
    [] f = "narration" -> "Narration"
    [] f = "mood" -> "Mood"
    [] f = "camera" -> "Camera/shot cues"
    [] f = "transition" -> "Transition"
    [] f = "cinematic" -> "Cinematic"

TextWord(f) ==
  CASE f = "visuals" -> "v"
    [] f = "narration" -> "n"
    [] f = "mood" -> "m"
    [] f = "camera" -> "k"
    [] f = "transition" -> "t"
    [] f = "cinematic" -> "c"

\* the text of the j-th label line of ls: one word where its label occurs for
\* the first time, two words where the label occurred on a line before
LabelText(ls, j) ==
  IF \E h \in 1..(j - 1) : ls[h] = ls[j]
  THEN Repeat(TextWord(ls[j][1]), 2)
  ELSE Repeat(TextWord(ls[j][1]), 1)

\* "**Scene 1: Opening**" and one line "* <Label>: <text>" for each of ls
LabelsBlock(ls) ==
  <<<<STAR, STAR, "Scene", SP, "1", COLON, SP, "Opening", STAR, STAR>>>>
  \o [j \in 1..Len(ls) |->
        <<STAR, SP, LabelWord(ls[j][1]), COLON, SP>> \o LabelText(ls, j)]

Render(t) ==
  IF t.fmt = "free" THEN JoinLines(t.lines)
  ELSE IF t.fmt = "labels" THEN JoinLines(LabelsBlock(t.lines))
  ELSE JoinLines(SceneLines(t.fmt, t.fields, 1))

(* ---------------------------- api.ts: values --------------------------- *)

\* a string held as a session id: the shape of its groups of hex digits, the
\* first character of its third group and of its fourth group, and a number
\* that tells apart strings alike in these
Id(shape, version, variant, n) ==
  [shape |-> shape, version |-> version, variant |-> variant, n |-> n]

\* the empty string
EmptyId == Id("", "", "", 0)

\* line 50: the pattern tested on the stored id, with its "i" flag
IsUuid(id) ==
  /\ id.shape = "8-4-4-4-12"
  /\ id.version \in {"1", "2", "3", "4", "5"}
  /\ id.variant \in {"8", "9", "a", "b", "A", "B"}

\* lines 35-45: crypto.randomUUID() or the fallback, both version 4 with a
\* variant character from 8 to b
RandomUuids ==
  {Id("8-4-4-4-12", "4", y, n) : y \in {"8", "b"}, n \in 1..MaxUuids}

\* what localStorage can hold under SESSION_STORAGE_KEY when the page loads:
\* nothing, the empty string, strings the pattern rejects, ids it accepts
StoredItems ==
  {<<>>, <<EmptyId>>,
   <<Id("other", "", "", 0)>>,
   <<Id("8-4-4-4-12", "6", "8", 0)>>,
   <<Id("8-4-4-4-12", "4", "c", 0)>>,
   <<Id("8-4-4-4-12", "4", "a", 0)>>,
   <<Id("8-4-4-4-12", "1", "B", 0)>>}

\* localStorage of the browser: working, throwing on every access, or
\* throwing on setItem only
StorageModes == {"works", "throws", "setItem throws"}

\* lines 47-58: the id returned and the item left in localStorage; u1 and u2
\* are the values of randomUUID() at line 51 and line 56
getOrCreateSessionId(item, mode, u1, u2) ==
  IF mode = "throws"
  THEN [id |-> u2, item |-> item]
  ELSE IF item = <<>> \/ item[1] = EmptyId \/ ~IsUuid(item[1])
       THEN IF mode = "setItem throws"
            THEN [id |-> u2, item |-> item]
            ELSE [id |-> u1, item |-> <<u1>>]
       ELSE [id |-> item[1], item |-> item]

\* lines 60-65: the headers of a request
apiHeaders(sessionId) ==
  ("Content-Type" :> "application/json") @@ ("X-Session-Id" :> sessionId)

\* an Error object
Err(name, message) == [name |-> name, message |-> message]

\* line 82
BACKEND_MESSAGE ==
  <<"Backend", "or", "Groq", "error.", "Try", "again", "or", "check",
    "backend", "logs.">>

\* lines 82 and 86
REQUEST_FAILED == <<"Request", "failed">>

\* line 93
TIMEOUT_MESSAGE ==
  <<"Request", "timed", "out.", "Check", "that", "the", "backend", "is",
    "running", "and", "reachable.", "If", "using", "Groq,", "the", "API",
    "may", "be", "slow.">>

\* line 98
NETWORK_MESSAGE ==
  <<"Network", "error:", "cannot", "reach", "the", "backend.", "Is", "it",
    "running", "at", "API_BASE", "?">>

\* the message of the ZodError that schema.parse throws
ZOD_MESSAGE == <<"Required">>

\* String.includes on a text of words: some word has w inside
Includes(message, w) ==
  \E j \in 1..Len(message) :
    \/ message[j] = w
    \/ w = "fetch" /\ message[j] \in {"prefetch", "fetch.", "refetched"}

\* texts of the details and error fields of an error body: the empty string,
\* a validation message, a provider message
BodyTexts ==
  {<<>>, <<"Invalid", "prompt">>, <<"Failed", "to", "fetch", "completion">>}

\* response.json(): a body that is not JSON, or an object with or without
\* details and error, which schema.parse accepts or rejects
NotJson == [json |-> FALSE, details |-> <<>>, error |-> <<>>, valid |-> FALSE]

JsonBodies ==
  [json : {TRUE},
   details : {<<>>} \cup {<<t>> : t \in BodyTexts},
   error : {<<>>} \cup {<<t>> : t \in BodyTexts},
   valid : BOOLEAN]

\* the responses fetch resolves with; line 82 tells 502 from other statuses
HttpResponses ==
  {r \in [status : {200, 400, 502}, ok : BOOLEAN, body : {NotJson} \cup JsonBodies] :
     /\ r.ok = (r.status = 200)
     /\ r.body.valid => r.ok}

\* the errors fetch rejects with when the network fails, as Chrome, Firefox
\* and Safari word them
FetchErrors ==
  {Err("TypeError", <<"Failed", "to", "fetch">>),
   Err("TypeError", <<"NetworkError", "when", "attempting", "to", "fetch", "resource.">>),
   Err("TypeError", <<"Load", "failed">>)}

\* the error fetch rejects with after controller.abort()
AbortError == Err("AbortError", <<"The", "user", "aborted", "a", "request.">>)

\* the ?? operator
Coalesce(a, b) == IF a # <<>> THEN a[1] ELSE b

\* how a promise settles: with a value or with an error
Resolved(v) == [value |-> <<v>>, error |-> <<>>]

Rejected(e) == [value |-> <<>>, error |-> <<e>>]

\* lines 77-88: the try block once fetch has resolved with r
TryBody(r) ==
  IF ~r.body.json /\ ~r.ok
  THEN Rejected(Err("Error", IF r.status = 502 THEN BACKEND_MESSAGE ELSE REQUEST_FAILED))
  ELSE IF ~r.ok
       THEN Rejected(Err("Error",
                       Coalesce(r.body.details, Coalesce(r.body.error, REQUEST_FAILED))))
       ELSE IF r.body.json /\ r.body.valid
            THEN Resolved(r.body)
            ELSE Rejected(Err("ZodError", ZOD_MESSAGE))

\* lines 89-103: the catch block
CatchBlock(err) ==
  IF err.name = "AbortError"
  THEN Err("Error", TIMEOUT_MESSAGE)
  ELSE IF Includes(err.message, "fetch")
       THEN Err("Error", NETWORK_MESSAGE)
       ELSE err

\* lines 69-103: what postJson gives when the try block gave t
Settle(t) == IF t.error # <<>> THEN Rejected(CatchBlock(t.error[1])) ELSE t

\* api.ts before any request
ApiInitial ==
  /\ stored = <<>>
  /\ storage = "works"
  /\ sent = <<>>
  /\ timeoutId = "none"
  /\ result = <<>>

(* --------------------------- App.tsx: values --------------------------- *)

\* line 7: const MAX_CHARS = 12000
MAX_CHARS == 12000

\* line 9: const TRUNCATE_FOR_GENERATION = 12000
TRUNCATE_FOR_GENERATION == 12000

\* null, and a value that is not null
Null == <<>>
Some(v) == <<v>>

\* A string of the App is known by the text it is cut from and by its length:
\* Str(t, n) is the first n characters of the text t.  The text "blank" is
\* whitespace only.
Str(t, n) == [text |-> t, len |-> n]
EmptyStr == Str("", 0)

\* s.slice(0, n)
Slice(s, n) == IF s.len <= n THEN s ELSE Str(s.text, n)

\* !s.trim()
TrimIsEmpty(s) == s.len = 0 \/ s.text = "blank"

\* what a change event of the Prompt Box carries
TypedTexts ==
  {EmptyStr, Str("blank", 1), Str("typed", 1), Str("typed", MAX_CHARS + 1)}

\* lines 22-26
SUGGESTED_PROMPTS == {Str("suggested", 100)}

\* the enhanced_prompt of a response: z.string(), of any length
EnhancedPrompts == {Str("enhanced", 1), Str("enhanced", MAX_CHARS + 1)}

\* the script of a response, z.string(): one markdown scene, prose without a
\* heading, or a blank and a newline
GeneratedScripts ==
  {Render([fmt |-> "md", lines |-> <<>>, fields |-> <<UniformMd(1)>>]),
   Render([fmt |-> "free", lines |-> <<<<"a">>>>, fields |-> <<>>]),
   <<SP, NL>>}

\* the run_id of a response
RunIds == 1..MaxRuns

\* err.message of a rejected request
ErrorMessages == {"Request failed"}

OptionFields == {"duration_seconds", "language", "platform", "size", "category"}

\* lines 11-17
emptyOptions == [f \in OptionFields |-> Null]

\* a value of each field, as the input element holds it
InputText(f) ==
  CASE f = "duration_seconds" -> "30"
    [] f = "language" -> "English"
    [] f = "platform" -> "youtube"
    [] f = "size" -> "vertical"
    [] f = "category" -> "kids"

\* Number(e.target.value)
Number(t) == CASE t = "30" -> 30

\* lines 346-348 (duration_seconds) and 361, 372, 390, 406 (the other fields):
\* the value an input element's text is stored as
FromInput(f, t) ==
  IF t = "" THEN Null
  ELSE IF f = "duration_seconds" THEN Some(Number(t)) ELSE Some(t)

\* the options of an extract response: nothing detected, or every field
ExtractedOptions ==
  {emptyOptions, [f \in OptionFields |-> FromInput(f, InputText(f))]}

\* lines 55-66: the useState initial values
AppInitial ==
  /\ runId = Null
  /\ prompt = EmptyStr
  /\ options = emptyOptions
  /\ script = <<>>
  /\ status = [extract |-> "idle", enhance |-> "idle", script |-> "idle"]
  /\ error = Null
  /\ response = Null

(* ------------------------- parseScriptToScenes ------------------------- *)

\* raw is the argument of the call in progress; parts, i and scenes are its
\* locals; log is what the calls so far have returned to their callers
Init ==
  /\ tpl \in Templates
  /\ raw = Render(tpl)
  /\ pc = "call"
  /\ parts = <<>>
  /\ i = 0
  /\ scenes = <<>>
  /\ log = <<>>
  /\ AppInitial
  /\ ApiInitial

Returned(r, out) == [raw |-> r, scenes |-> out]

\* line 67: if (!raw.trim()) return [];
ReturnEmpty ==
  /\ pc = "call"
  /\ Trim(raw) = <<>>
  /\ scenes' = <<>>
  /\ log' = Append(log, Returned(raw, <<>>))
  /\ pc' = "done"
  /\ UNCHANGED <<tpl, raw, parts, i>>
  /\ UNCHANGED <<appVars, apiVars>>

\* the split with scenes kept in an array that outlives the call
SplitScriptSharedScenes ==
  /\ pc = "call"
  /\ Trim(raw) # <<>>
  /\ parts' = TrimAndFilter(Split(raw))
  /\ i' = 0
  /\ pc' = "loop"
  /\ UNCHANGED <<tpl, raw, scenes, log>>
  /\ UNCHANGED <<appVars, apiVars>>

\* lines 69-75: split, trim, filter; const scenes = []; let i = 0
SplitScript ==
  /\ pc = "call"
  /\ Trim(raw) # <<>>
  /\ parts' = TrimAndFilter(Split(raw))
  /\ scenes' = <<>>
  /\ i' = 0
  /\ pc' = "loop"
  /\ UNCHANGED <<tpl, raw, log>>
  /\ UNCHANGED <<appVars, apiVars>>

\* lines 75-79: one iteration of the loop
LoopStep ==
  /\ pc = "loop"
  /\ i < Len(parts)
  /\ LET block == parts[i + 1]
         scene == parseBlock(block, i + 1)
     IN IF block = <<>> THEN UNCHANGED <<scenes, pc>>
        ELSE IF scene.visuals = TypeError
             THEN pc' = "threw" /\ UNCHANGED scenes
             ELSE scenes' = Append(scenes, scene) /\ UNCHANGED pc
  /\ i' = i + 1
  /\ UNCHANGED <<tpl, raw, parts, log>>
  /\ UNCHANGED <<appVars, apiVars>>

\* line 81: if (scenes.length > 0) return scenes;
ReturnScenes ==
  /\ pc = "loop"
  /\ i >= Len(parts)
  /\ Len(scenes) > 0
  /\ log' = Append(log, Returned(raw, scenes))
  /\ pc' = "done"
  /\ UNCHANGED <<tpl, raw, parts, i, scenes>>
  /\ UNCHANGED <<appVars, apiVars>>

\* the return without the fallback scene
ReturnWithoutFallback ==
  /\ pc = "loop"
  /\ i >= Len(parts)
  /\ Len(scenes) = 0
  /\ log' = Append(log, Returned(raw, scenes))
  /\ pc' = "done"
  /\ UNCHANGED <<tpl, raw, parts, i, scenes>>
  /\ UNCHANGED <<appVars, apiVars>>

\* lines 83-91: the fallback scene
ReturnFallback ==
  /\ pc = "loop"
  /\ i >= Len(parts)
  /\ Len(scenes) = 0
  /\ scenes' = <<FallbackScene(raw)>>
  /\ log' = Append(log, Returned(raw, <<FallbackScene(raw)>>))
  /\ pc' = "done"
  /\ UNCHANGED <<tpl, raw, parts, i>>
  /\ UNCHANGED <<appVars, apiVars>>

Next == ReturnEmpty \/ SplitScript \/ LoopStep \/ ReturnScenes \/ ReturnFallback

Spec == Init /\ [][Next]_vars

\* the call as one function of its input
RECURSIVE ParseBlocks(_, _)
ParseBlocks(ps, n) ==
  IF n > Len(ps) THEN <<>>
  ELSE <<parseBlock(ps[n], n)>> \o ParseBlocks(ps, n + 1)

parseScriptToScenes(s) ==
  IF Trim(s) = <<>> THEN <<>>
  ELSE LET ps == TrimAndFilter(Split(s))
       IN IF ps # <<>> THEN ParseBlocks(ps, 1) ELSE <<FallbackScene(s)>>

(* --------------------------- repeated calls ---------------------------- *)

\* the scripts the caller parses one after the other
CallTemplates ==
  {[fmt |-> "free", lines |-> ls, fields |-> <<>>] :
      ls \in { <<<<>>>>,
               <<<<"a">>>>,
               <<<<"Scene", SP, "2">>, <<STAR, SP, "Mood", COLON, SP, "m">>>>,
               <<<<"a">>, <<"Scene", SP, "1", COLON>>, <<"Scene", SP, "2">>>> }}
  \cup {[fmt |-> "plain", lines |-> <<>>, fields |-> <<UniformPlain(1)>>],
        [fmt |-> "md", lines |-> <<>>, fields |-> <<UniformMd(1), UniformMd(1)>>]}

InitCalls ==
  /\ tpl \in CallTemplates
  /\ raw = Render(tpl)
  /\ pc = "call"
  /\ parts = <<>>
  /\ i = 0
  /\ scenes = <<>>
  /\ log = <<>>
  /\ AppInitial
  /\ ApiInitial

\* the caller calls parseScriptToScenes again, on the same or another script
NewCall ==
  /\ pc = "done"
  /\ Len(log) < MaxCalls
  /\ \E t \in CallTemplates :
       /\ tpl' = t
       /\ raw' = Render(t)
  /\ pc' = "call"
  /\ UNCHANGED <<parts, i, scenes, log>>
  /\ UNCHANGED <<appVars, apiVars>>

NextCalls ==
  ReturnEmpty \/ SplitScript \/ LoopStep \/ ReturnScenes \/ ReturnFallback \/ NewCall

SpecCalls == InitCalls /\ [][NextCalls]_vars

(* -------------------------- App.tsx: handlers -------------------------- *)

\* line 85
withinLimit == prompt.len <= MAX_CHARS

\* lines 90-93
anyActionLoading ==
  \/ status.extract = "loading"
  \/ status.enhance = "loading"
  \/ status.script = "loading"

\* lines 94-97
canEnhance == ~TrimIsEmpty(prompt) /\ prompt.len <= MAX_CHARS /\ runId # Null

\* lines 98-104
canGenerate == ~TrimIsEmpty(prompt) /\ prompt.len <= MAX_CHARS /\ runId # Null

\* line 331: the options card, with its inputs and the Enhance button
OptionsCardShown == runId # Null /\ status.extract # "loading"

\* the first render: no call of the parser in progress; parsedScenes of the
\* empty script
InitApp ==
  /\ AppInitial
  /\ ApiInitial
  /\ tpl = [fmt |-> "free", lines |-> <<>>, fields |-> <<>>]
  /\ raw = <<>>
  /\ pc = "done"
  /\ parts = <<>>
  /\ i = 0
  /\ scenes = <<>>
  /\ log = <<>>

\* onChange of the Prompt Box with setPrompt(e.target.value), not sliced
ChangePromptUnsliced ==
  /\ \E v \in TypedTexts : prompt' = v
  /\ response' = Null
  /\ UNCHANGED <<runId, options, script, status, error>>
  /\ UNCHANGED <<parserVars, apiVars>>

\* lines 232-234: onChange of the Prompt Box
ChangePrompt ==
  /\ \E v \in TypedTexts : prompt' = Slice(v, MAX_CHARS)
  /\ response' = Null
  /\ UNCHANGED <<runId, options, script, status, error>>
  /\ UNCHANGED <<parserVars, apiVars>>

\* lines 152-154, shown by line 295 while the prompt is blank
handleSuggestedPromptClick ==
  /\ TrimIsEmpty(prompt)
  /\ \E suggestion \in SUGGESTED_PROMPTS : prompt' = Slice(suggestion, MAX_CHARS)
  /\ response' = Null
  /\ UNCHANGED <<runId, options, script, status, error>>
  /\ UNCHANGED <<parserVars, apiVars>>

\* lines 115-117: handleExtractOptions up to its await
StartExtract ==
  /\ ~TrimIsEmpty(prompt)
  /\ withinLimit
  /\ status.extract # "loading"
  /\ status' = [status EXCEPT !.extract = "loading"]
  /\ error' = Null
  /\ response' = Null
  /\ UNCHANGED <<runId, prompt, options, script>>
  /\ UNCHANGED <<parserVars, apiVars>>

\* lines 250-258: the Extract Options button, disabled while any action loads
ClickExtract ==
  /\ ~anyActionLoading
  /\ StartExtract

\* lines 132-141: Ctrl+Enter or Cmd+Enter anywhere in the window calls
\* handleExtractOptions, whatever the buttons show
ExtractShortcut == StartExtract

\* lines 118-124: the extract request resolves
ExtractSucceeds ==
  /\ status.extract = "loading"
  /\ \E r \in RunIds, o \in ExtractedOptions :
       /\ runId' = Some(r)
       /\ options' = o
       /\ response' = Some([kind |-> "extract", run_id |-> r, options |-> o])
  /\ status' = [status EXCEPT !.extract = "success"]
  /\ UNCHANGED <<prompt, script, error>>
  /\ UNCHANGED <<parserVars, apiVars>>

\* lines 125-129: the extract request rejects
ExtractFails ==
  /\ status.extract = "loading"
  /\ \E m \in ErrorMessages :
       /\ error' = Some(m)
       /\ response' = Some([kind |-> "extract", error |-> m])
  /\ status' = [status EXCEPT !.extract = "error"]
  /\ UNCHANGED <<runId, prompt, options, script>>
  /\ UNCHANGED <<parserVars, apiVars>>

\* the Enhance Prompt button enabled only when every option has a value
ClickEnhanceCompleteOnly ==
  /\ OptionsCardShown
  /\ \A f \in OptionFields : options[f] # Null
  /\ canEnhance /\ ~anyActionLoading
  /\ status' = [status EXCEPT !.enhance = "loading"]
  /\ error' = Null
  /\ response' = Null
  /\ UNCHANGED <<runId, prompt, options, script>>
  /\ UNCHANGED <<parserVars, apiVars>>

\* lines 426-435 and 161-165: the Enhance Prompt button and handleEnhancePrompt
\* up to its await
ClickEnhance ==
  /\ OptionsCardShown
  /\ canEnhance /\ ~anyActionLoading
  /\ runId # Null /\ ~anyActionLoading
  /\ status' = [status EXCEPT !.enhance = "loading"]
  /\ error' = Null
  /\ response' = Null
  /\ UNCHANGED <<runId, prompt, options, script>>
  /\ UNCHANGED <<parserVars, apiVars>>

\* the enhance request resolves with setPrompt(enhancedPrompt), not sliced
EnhanceSucceedsUnsliced ==
  /\ status.enhance = "loading"
  /\ \E enhancedPrompt \in EnhancedPrompts :
       /\ prompt' = enhancedPrompt
       /\ response' = Some([kind |-> "enhance", enhanced_prompt |-> enhancedPrompt])
  /\ status' = [status EXCEPT !.enhance = "success"]
  /\ UNCHANGED <<runId, options, script, error>>
  /\ UNCHANGED <<parserVars, apiVars>>

\* lines 166-173: the enhance request resolves
EnhanceSucceeds ==
  /\ status.enhance = "loading"
  /\ \E enhancedPrompt \in EnhancedPrompts :
       /\ prompt' = Slice(enhancedPrompt, MAX_CHARS)
       /\ response' = Some([kind |-> "enhance", enhanced_prompt |-> enhancedPrompt])
  /\ status' = [status EXCEPT !.enhance = "success"]
  /\ UNCHANGED <<runId, options, script, error>>
  /\ UNCHANGED <<parserVars, apiVars>>

\* lines 174-178: the enhance request rejects
EnhanceFails ==
  /\ status.enhance = "loading"
  /\ \E m \in ErrorMessages :
       /\ error' = Some(m)
       /\ response' = Some([kind |-> "enhance", error |-> m])
  /\ status' = [status EXCEPT !.enhance = "error"]
  /\ UNCHANGED <<runId, prompt, options, script>>
  /\ UNCHANGED <<parserVars, apiVars>>

\* the Generate Video Script button shown and handled without a run
ClickGenerateWithoutRun ==
  /\ ~TrimIsEmpty(prompt) /\ prompt.len <= MAX_CHARS
  /\ ~anyActionLoading
  /\ status' = [status EXCEPT !.script = "loading"]
  /\ error' = Null
  /\ response' = Null
  /\ UNCHANGED <<runId, prompt, options, script>>
  /\ UNCHANGED <<parserVars, apiVars>>

\* lines 271-280 and 181-184: the Generate Video Script button and
\* handleGenerateScript up to its await
ClickGenerate ==
  /\ runId # Null
  /\ canGenerate /\ ~anyActionLoading
  /\ runId # Null /\ ~anyActionLoading
  /\ status' = [status EXCEPT !.script = "loading"]
  /\ error' = Null
  /\ response' = Null
  /\ UNCHANGED <<runId, prompt, options, script>>
  /\ UNCHANGED <<parserVars, apiVars>>

\* lines 185-194 and 112: the script request resolves; the render that follows
\* computes parsedScenes from the new script
ScriptSucceeds ==
  /\ status.script = "loading"
  /\ \E generatedScript \in GeneratedScripts :
       /\ script' = generatedScript
       /\ raw' = generatedScript
       /\ scenes' = parseScriptToScenes(generatedScript)
       /\ response' = Some([kind |-> "script", script |-> generatedScript])
  /\ status' = [status EXCEPT !.script = "success"]
  /\ UNCHANGED <<runId, prompt, options, error>>
  /\ UNCHANGED <<tpl, pc, parts, i, log>>
  /\ UNCHANGED apiVars

\* the script request rejects and the catch also clears the script
ScriptFailsClearingScript ==
  /\ status.script = "loading"
  /\ \E m \in ErrorMessages :
       /\ error' = Some(m)
       /\ response' = Some([kind |-> "script", error |-> m])
  /\ status' = [status EXCEPT !.script = "error"]
  /\ script' = <<>>
  /\ UNCHANGED <<runId, prompt, options>>
  /\ UNCHANGED <<parserVars, apiVars>>

\* lines 195-201: the script request rejects
ScriptFails ==
  /\ status.script = "loading"
  /\ \E m \in ErrorMessages :
       /\ error' = Some(m)
       /\ response' = Some([kind |-> "script", error |-> m])
  /\ status' = [status EXCEPT !.script = "error"]
  /\ UNCHANGED <<runId, prompt, options, script>>
  /\ UNCHANGED <<parserVars, apiVars>>

\* onChange without the spread of prev: setOptions({ [field]: value })
ChangeOptionWithoutPrev ==
  /\ OptionsCardShown
  /\ \E f \in OptionFields : \E t \in {"", InputText(f)} :
       options' = [emptyOptions EXCEPT ![f] = FromInput(f, t)]
  /\ response' = Null
  /\ UNCHANGED <<runId, prompt, script, status, error>>
  /\ UNCHANGED <<parserVars, apiVars>>

\* lines 337-423: onChange of an input of the options card
ChangeOption ==
  /\ OptionsCardShown
  /\ \E f \in OptionFields : \E t \in {"", InputText(f)} :
       options' = [options EXCEPT ![f] = FromInput(f, t)]
  /\ response' = Null
  /\ UNCHANGED <<runId, prompt, script, status, error>>
  /\ UNCHANGED <<parserVars, apiVars>>

\* line 112: parsedScenes, computed by the render that follows setScript
parsedScenes == scenes

\* lines 475-506: the scene cards of the output panel
SceneCards == IF script # <<>> /\ Len(parsedScenes) > 0 THEN parsedScenes ELSE <<>>

\* lines 508-513: the empty-state text of the output panel
EmptyStateShown == script = <<>> /\ status.script # "loading"

\* lines 105-108: the prompt that handleGenerateScript sends
promptForGeneration ==
  IF prompt.len <= TRUNCATE_FOR_GENERATION
  THEN prompt
  ELSE Slice(prompt, TRUNCATE_FOR_GENERATION)

\* lines 109-110, shown by lines 514-518: "Prompt was shortened before
\* generation due to length."
wasTruncatedForGeneration ==
  prompt.len > TRUNCATE_FOR_GENERATION /\ script # <<>>

\* lines 465-469: "Long prompt will be shortened before generation."
WillBeShortenedNoteShown ==
  runId # Null /\ prompt.len > TRUNCATE_FOR_GENERATION

NextApp ==
  \/ ChangePrompt
  \/ handleSuggestedPromptClick
  \/ ClickExtract
  \/ ExtractShortcut
  \/ ExtractSucceeds
  \/ ExtractFails
  \/ ClickEnhance
  \/ EnhanceSucceeds
  \/ EnhanceFails
  \/ ClickGenerate
  \/ ScriptSucceeds
  \/ ScriptFails
  \/ ChangeOption

SpecApp == InitApp /\ [][NextApp]_vars

(* ---------------------------- api.ts: postJson ------------------------- *)

\* a page load: any localStorage, no request yet
InitApi ==
  /\ AppInitial
  /\ tpl = [fmt |-> "free", lines |-> <<>>, fields |-> <<>>]
  /\ raw = <<>>
  /\ pc = "done"
  /\ parts = <<>>
  /\ i = 0
  /\ scenes = <<>>
  /\ log = <<>>
  /\ stored \in StoredItems
  /\ storage \in StorageModes
  /\ sent = <<>>
  /\ timeoutId = "none"
  /\ result = <<>>

\* lines 68-75: postJson sets the timer and calls fetch with apiHeaders()
postJsonStart ==
  /\ timeoutId \in {"none", "cleared"}
  /\ Len(sent) < MaxRequests
  /\ \E u1 \in RandomUuids, u2 \in RandomUuids :
       LET g == getOrCreateSessionId(stored, storage, u1, u2)
       IN /\ stored' = g.item
          /\ sent' = Append(sent, apiHeaders(g.id))
  /\ timeoutId' = "pending"
  /\ result' = <<>>
  /\ UNCHANGED storage
  /\ UNCHANGED <<parserVars, appVars>>

\* line 69: the timer fires after FETCH_TIMEOUT_MS and aborts the request
TimerFires ==
  /\ timeoutId = "pending"
  /\ timeoutId' = "fired"
  /\ UNCHANGED <<stored, storage, sent, result>>
  /\ UNCHANGED <<parserVars, appVars>>

\* lines 70-75, 89-105: fetch rejects with the AbortError of the abort
FetchAborted ==
  /\ timeoutId = "fired"
  /\ result' = <<[response |-> <<>>, rejection |-> <<AbortError>>,
                  settled |-> Settle(Rejected(AbortError))]>>
  /\ timeoutId' = "cleared"
  /\ UNCHANGED <<stored, storage, sent>>
  /\ UNCHANGED <<parserVars, appVars>>

\* lines 70-75, 89-105: fetch rejects because the backend cannot be reached
FetchRejects ==
  /\ timeoutId = "pending"
  /\ \E e \in FetchErrors :
       result' = <<[response |-> <<>>, rejection |-> <<e>>,
                    settled |-> Settle(Rejected(e))]>>
  /\ timeoutId' = "cleared"
  /\ UNCHANGED <<stored, storage, sent>>
  /\ UNCHANGED <<parserVars, appVars>>

\* lines 70-105: fetch resolves with a response
FetchResolves ==
  /\ timeoutId = "pending"
  /\ \E r \in HttpResponses :
       result' = <<[response |-> <<r>>, rejection |-> <<>>,
                    settled |-> Settle(TryBody(r))]>>
  /\ timeoutId' = "cleared"
  /\ UNCHANGED <<stored, storage, sent>>
  /\ UNCHANGED <<parserVars, appVars>>

NextApi ==
  \/ postJsonStart
  \/ TimerFires
  \/ FetchAborted
  \/ FetchRejects
  \/ FetchResolves

SpecApi == InitApi /\ [][NextApi]_vars

(* ------------------------------ claims --------------------------------- *)

Done == pc = "done"

IsBlank(s) == \A k \in 1..Len(s) : IsWs(s[k])

FieldNames == {"visuals", "narration", "mood", "cinematicDirection"}

\* the title "Scene k"
PositionTitle(k) == [word |-> "Scene", n |-> k]

\* the title "Script"
FallbackTitle == [word |-> "Script", n |-> 0]

\* A scene heading at the start of a line: the word Scene at position k, then
\* whitespace and a digit, with nothing before it on its line but whitespace
\* and at most two emphasis stars that touch the word.
StarsBefore(s, k) ==
  IF k > 1 /\ s[k - 1] = STAR
  THEN IF k > 2 /\ s[k - 2] = STAR
       THEN IF k > 3 /\ s[k - 3] = STAR THEN 3 ELSE 2
       ELSE 1
  ELSE 0

LineStartHeadingAt(s, k) ==
  /\ Fold(s[k]) = "Scene"
  /\ \E d \in (k + 2)..Len(s) :
       /\ IsDigit(s[d])
       /\ \A j \in (k + 1)..(d - 1) : IsWs(s[j])
  /\ StarsBefore(s, k) <= 2
  /\ \A j \in 1..(k - 1 - StarsBefore(s, k)) :
       IsWs(s[j]) \/ \E n \in (j + 1)..(k - 1) : s[n] = NL

LineStartHeadings(s) == {k \in 1..Len(s) : LineStartHeadingAt(s, k)}

\* C1: the call returns the empty sequence exactly when the input is empty or
\* all whitespace; every other input yields at least one scene.
C1_EmptyIffBlank ==
  Done => (scenes = <<>> <=> IsBlank(raw))

C1_Witness ==
  /\ Done
  /\ raw # <<>>
  /\ IsBlank(raw)
  /\ scenes = <<>>

\* C2: a non-blank input with no scene heading at the start of a line yields
\* exactly one scene, titled "Script", whose narration is the trimmed input
\* and whose other three fields are the placeholder.
C2_FallbackScene ==
  (Done /\ ~IsBlank(raw) /\ LineStartHeadings(raw) = {}) =>
    scenes = <<[title |-> FallbackTitle, visuals |-> PLACEHOLDER,
                narration |-> Trim(raw), mood |-> PLACEHOLDER,
                cinematicDirection |-> PLACEHOLDER]>>

C2_Witness ==
  /\ Done
  /\ LineStartHeadings(raw) = {}
  /\ \E k \in 1..Len(raw) : Fold(raw[k]) = "Scene"
  /\ IsWs(raw[1])
  /\ Len(scenes) = 1
  /\ scenes[1].title = FallbackTitle

\* C3: no display field of any scene the parser has built is the empty
\* string: each is text or the placeholder.
C3_NoEmptyField ==
  \A k \in 1..Len(scenes) : \A f \in FieldNames : scenes[k][f] # <<>>

C3_Witness ==
  /\ Done
  /\ \E k \in 1..Len(scenes) :
       /\ scenes[k].title = PositionTitle(k)
       /\ scenes[k].visuals = PLACEHOLDER
       /\ scenes[k].cinematicDirection = PLACEHOLDER
       /\ scenes[k].narration # PLACEHOLDER

\* C4: for a script in plain format the parser returns one scene per heading,
\* in order, whose visuals, narration, mood and cinematicDirection are exactly
\* the texts of that scene's Visuals, Narration, Mood and Cinematic lines.
C4_PlainFormatExact ==
  (Done /\ tpl.fmt = "plain") =>
    /\ Len(scenes) = Len(tpl.fields)
    /\ \A k \in 1..Len(scenes) :
         /\ scenes[k].title = PositionTitle(k)
         /\ scenes[k].visuals = tpl.fields[k].visuals
         /\ scenes[k].narration = tpl.fields[k].narration
         /\ scenes[k].mood = tpl.fields[k].mood
         /\ scenes[k].cinematicDirection = tpl.fields[k].cinematic

\* C5: for a script in markdown/bullet format every scene is titled by its
\* position, its visuals, narration and mood are the texts of their own lines,
\* and its cinematicDirection is the camera-cue text, one space, and the
\* transition text.
C5_MarkdownFormatExact ==
  (Done /\ tpl.fmt = "md") =>
    /\ Len(scenes) = Len(tpl.fields)
    /\ \A k \in 1..Len(scenes) :
         /\ scenes[k].title = PositionTitle(k)
         /\ scenes[k].visuals = tpl.fields[k].visuals
         /\ scenes[k].narration = tpl.fields[k].narration
         /\ scenes[k].mood = tpl.fields[k].mood
         /\ scenes[k].cinematicDirection =
              tpl.fields[k].camera \o <<SP>> \o tpl.fields[k].transition

C5_Witness ==
  /\ Done
  /\ tpl.fmt = "md"
  /\ Len(scenes) = 1
  /\ scenes[1].cinematicDirection = <<"k", SP, "t", SP, "scene", SP, "2">>
  /\ scenes[1].narration = <<"n", SP, "scene", SP, "2">>

\* A mention of a scene in running text: the word Scene, whitespace and a
\* number, preceded on its line by text (a token that is not whitespace, not
\* an emphasis star, not the word Scene and not a digit).
IsText(t) == ~IsWs(t) /\ t # STAR /\ Fold(t) # "Scene" /\ ~IsDigit(t)

MentionAt(s, k) ==
  /\ Fold(s[k]) = "Scene"
  /\ k + 2 <= Len(s)
  /\ IsWs(s[k + 1])
  /\ SkipWs(s, k + 1) <= Len(s)
  /\ IsDigit(s[SkipWs(s, k + 1)])
  /\ \E j \in 1..(k - 1) :
       /\ IsText(s[j])
       /\ \A n \in j..(k - 1) : s[n] # NL

Mentions(s) == {k \in 1..Len(s) : MentionAt(s, k)}

\* s without the mention at k
RemoveMention(s, k) ==
  SubSeq(s, 1, k - 1) \o SubSeq(s, SkipDigits(s, SkipWs(s, k + 1)), Len(s))

\* C6: a "Scene N" that follows text on its line never starts a scene: the
\* call returns as many scenes as it returns for the input without the mention.
C6_MentionDoesNotSplit ==
  Done => \A k \in Mentions(raw) :
            Len(parseScriptToScenes(RemoveMention(raw, k))) = Len(scenes)

C6_Witness ==
  /\ Done
  /\ Len(scenes) = 2
  /\ Cardinality(LineStartHeadings(raw)) = 2
  /\ Cardinality(Mentions(raw)) = 1

\* C7: with n >= 1 scene headings at the start of a line, the titles are
\* "Scene 1" .. "Scene n" in order of occurrence, whatever numbers the
\* headings declare.
C7_TitlesArePositions ==
  (Done /\ LineStartHeadings(raw) # {}) =>
    /\ Len(scenes) = Cardinality(LineStartHeadings(raw))
    /\ \A k \in 1..Len(scenes) : scenes[k].title = PositionTitle(k)

DeclaredNumbers(s) ==
  [k \in LineStartHeadings(s) |-> s[SkipWs(s, k + 1)]]

\* headings "Scene 2", "Scene 1", "Scene 1": out of order, and one number twice
C7_Witness ==
  /\ Done
  /\ Len(scenes) = 3
  /\ \E a, b, c \in LineStartHeadings(raw) :
       /\ a < b /\ b < c
       /\ DeclaredNumbers(raw)[a] = "2"
       /\ DeclaredNumbers(raw)[b] = "1"
       /\ DeclaredNumbers(raw)[c] = "1"

\* C8: two calls on the same input return equal sequences, whatever calls on
\* other inputs were made before or between them.
C8_SameInputSameOutput ==
  \A a, b \in 1..Len(log) :
    log[a].raw = log[b].raw => log[a].scenes = log[b].scenes

C8_Witness ==
  /\ Len(log) = 3
  /\ log[1].raw = log[3].raw
  /\ log[1].raw # log[2].raw
  /\ Len(log[1].scenes) = 2
  /\ Len(log[2].scenes) = 1

\* what is left of the call: the split, then one iteration for each part, then
\* the return
Remaining ==
  CASE pc = "call" -> Len(raw) + 3
    [] pc = "loop" -> Len(parts) - i + 1
    [] OTHER -> 0

\* C9: every call ends, and ends by returning: no step raises an error, and
\* every step brings the call nearer to its return.
C9_Total ==
  [][pc' # "threw" /\ Remaining' < Remaining /\ Remaining' >= 0]_vars

\* a returned scene whose heading has no body, and one with a label missing
C9_Witness ==
  /\ Done
  /\ Len(scenes) = 2
  /\ \A f \in FieldNames : scenes[1][f] = PLACEHOLDER
  /\ scenes[2].mood # PLACEHOLDER
  /\ scenes[2].visuals = PLACEHOLDER

\* a line of v that is a label line, with or without a bullet marker
LabelLineAt(v, k) ==
  /\ v[k] = NL
  /\ LET a == SkipWs(v, k + 1)
         b == IF a <= Len(v) /\ v[a] = STAR THEN SkipWs(v, a + 1) ELSE a
     IN /\ b + 1 <= Len(v)
        /\ Fold(v[b]) \in BoundaryWords
        /\ v[b + 1] = COLON

\* C10: the text captured for a field ends at the next label line, with or
\* without a bullet marker: no field value contains a later label line.
C10_StopsAtNextLabel ==
  Done => \A k \in 1..Len(scenes) : \A f \in FieldNames :
            \A n \in 1..Len(scenes[k][f]) : ~LabelLineAt(scenes[k][f], n)

\* what follows the first line of b, from the newline that ends the line
AfterFirstLine(b) == SubSeq(b, SkipLine(b, 1), Len(b))

\* C11: the body parseBlock extracts the fields from is the block without its
\* first line, the heading line; a heading line that ends at "Scene N" or
\* "Scene N:" leaves the line after it in the body.
C11_OnlyHeadingLineRemoved ==
  pc \in {"loop", "done"} =>
    \A k \in 1..Len(parts) :
      StripHeading(parts[k]) = Trim(AfterFirstLine(parts[k]))

\* the text of the first line of ls that carries the label of field f, or the
\* empty text when no line does
FirstTextOf(ls, f) ==
  IF \E j \in 1..Len(ls) : ls[j] = <<f>> THEN <<TextWord(f)>> ELSE <<>>

\* the texts of xs, none empty, with one space between neighbours
RECURSIVE WithSpaces(_)
WithSpaces(xs) ==
  IF Len(xs) = 1 THEN xs[1] ELSE xs[1] \o <<SP>> \o WithSpaces(Tail(xs))

\* explicit cinematic text, camera-cue text, transition text: the non-empty
\* ones with single spaces, or the placeholder when there is none
ExpectedDirection(cin, cam, tr) ==
  LET present == SelectSeq(<<cin, cam, tr>>, LAMBDA x : x # <<>>)
  IN IF present = <<>> THEN PLACEHOLDER ELSE WithSpaces(present)

\* C12: cinematicDirection is the explicit cinematic text, the camera-cue text
\* and the transition text of the block, the empty ones left out, joined by
\* single spaces in that order whatever the order of their lines, and it is
\* the placeholder exactly when the three are empty.
C12_DirectionOrder ==
  Done =>
    /\ \A k \in 1..Len(parts) : Len(scenes) = Len(parts) =>
         LET body == StripHeading(parts[k])
             cin == getLabelContent(body, "cinematic")
             cam == getLabelContent(body, "camera")
             tr == getLabelContent(body, "transition")
         IN /\ scenes[k].cinematicDirection = ExpectedDirection(cin, cam, tr)
            /\ scenes[k].cinematicDirection = PLACEHOLDER
                 <=> (cin = <<>> /\ cam = <<>> /\ tr = <<>>)
    /\ tpl.fmt = "labels" =>
         scenes[1].cinematicDirection =
           ExpectedDirection(FirstTextOf(tpl.lines, "cinematic"),
                             FirstTextOf(tpl.lines, "camera"),
                             FirstTextOf(tpl.lines, "transition"))

\* the lines Transition, Camera/shot cues, Cinematic, in that order
C12_Witness ==
  /\ Done
  /\ tpl.fmt = "labels"
  /\ tpl.lines = <<<<"transition">>, <<"camera">>, <<"cinematic">>>>
  /\ scenes[1].cinematicDirection = <<"c", SP, "k", SP, "t">>

\* the words the label of a field is written with
LabelWordsOf(f) ==
  CASE f = "visuals" -> {"Visual", "Visuals", "Visual direction"}
    [] f = "narration" -> {"Narration"}
    [] f = "mood" -> {"Mood"}

LabelOccurs(b, f) == \E k \in 1..Len(b) : Fold(b[k]) \in LabelWordsOf(f)

\* what a field shows for the text t of its line
Shown(t) == IF t = <<>> THEN PLACEHOLDER ELSE t

OwnLabelAt(v, n, f) ==
  /\ Fold(v[n]) \in LabelWordsOf(f)
  /\ n + 1 <= Len(v)
  /\ v[n + 1] = COLON

\* the label of field f is on two lines of ls
OccursTwice(ls, f) ==
  \E h, j \in 1..Len(ls) : h < j /\ ls[h] = <<f>> /\ ls[j] = <<f>>

\* C14: the value of a field is the text after the first occurrence of its
\* label and ends where the label occurs again: no value of visuals, narration
\* or mood contains the field's own label, and in a bulleted block with the
\* label on two lines the value is the text of the first of them.
C14_FirstOccurrenceOnly ==
  Done =>
    /\ \A k \in 1..Len(parts) : \A f \in {"visuals", "narration", "mood"} :
         \A n \in 1..Len(scenes[k][f]) : ~OwnLabelAt(scenes[k][f], n, f)
    /\ tpl.fmt = "labels" =>
         \A f \in {"visuals", "narration", "mood"} :
           OccursTwice(tpl.lines, f) => scenes[1][f] = <<TextWord(f)>>

\* the elements of a set of numbers in ascending order
RECURSIVE Ascending(_)
Ascending(S) ==
  IF S = {} THEN <<>>
  ELSE LET m == CHOOSE x \in S : \A y \in S : x <= y
       IN <<m>> \o Ascending(S \ {m})

\* where the headings at the start of a line begin, emphasis stars included
HeadingStarts(s) == {k - StarsBefore(s, k) : k \in LineStartHeadings(s)}

\* C15: with at least one heading at the start of a line, written "Scene N:",
\* "Scene N" or "**Scene N:**", there is one block for each heading, from the
\* heading to the next heading or the end of the text, and the call returns
\* one scene for each.
C15_BlockPerHeading ==
  (pc \in {"loop", "done"} /\ LineStartHeadings(raw) # {}) =>
    LET st == Ascending(HeadingStarts(raw))
        n == Len(st)
    IN /\ Len(parts) = n
       /\ \A k \in 1..n :
            parts[k] =
              Trim(SubSeq(raw, st[k], IF k < n THEN st[k + 1] - 1 ELSE Len(raw)))
       /\ Done => Len(scenes) = n

\* the three ways of writing a heading, one after the other
C15_Witness ==
  /\ Done
  /\ tpl.fmt = "free"
  /\ tpl.lines = << <<"Scene", SP, "1", COLON>>,
                    <<"Scene", SP, "2">>,
                    <<STAR, STAR, "Scene", SP, "2", COLON, STAR, STAR>> >>
  /\ Len(scenes) = 3

\* s from its first heading at the start of a line on
FromFirstHeading(s) ==
  SubSeq(s, Ascending(HeadingStarts(s))[1], Len(s))

\* text stands before the first heading of s
HasPreamble(s) ==
  /\ LineStartHeadings(s) # {}
  /\ ~IsBlank(SubSeq(s, 1, Ascending(HeadingStarts(s))[1] - 1))

\* C16: with at least one heading at the start of a line, the call returns
\* what it returns for the input without the text before the first heading:
\* that text is no scene and is in no field, and the first scene is "Scene 1".
C16_PreambleDiscarded ==
  (Done /\ LineStartHeadings(raw) # {}) =>
    /\ scenes = parseScriptToScenes(FromFirstHeading(raw))
    /\ scenes[1].title = PositionTitle(1)
    /\ Len(scenes) = Cardinality(LineStartHeadings(FromFirstHeading(raw)))

\* prose, then a heading with a mood line
C16_Witness ==
  /\ Done
  /\ tpl.fmt = "free"
  /\ Len(tpl.lines) = 3
  /\ tpl.lines[1] = <<"a">>
  /\ HasPreamble(raw)
  /\ Len(scenes) = 1
  /\ scenes[1].mood = <<"m">>

\* the last step received a successful response of the given kind
Received(kind) ==
  /\ response # Null
  /\ response[1].kind = kind
  /\ "error" \notin DOMAIN response[1]

FirstChars(s, n) == [text |-> s.text, len |-> IF s.len < n THEN s.len ELSE n]

C18_RunBeforeRequests ==
  [][/\ runId' # runId =>
          /\ status.extract = "loading"
          /\ status'.extract = "success"
          /\ Received("extract")'
          /\ runId' = Some(response'[1].run_id)
     /\ (status'.enhance = "loading" \/ status'.script = "loading") =>
          runId' # Null]_vars

\* a script request in flight for the second run, never enhanced
C18_Witness ==
  /\ status.script = "loading"
  /\ status.enhance = "idle"
  /\ runId = Some(2)

\* C19: with a run, a prompt that is not blank and no action loading, Enhance
\* Prompt and Generate Video Script can both be started, whatever the options
\* are and whether or not the prompt was enhanced before.
C19_OptionsNeverBlock ==
  (runId # Null /\ ~TrimIsEmpty(prompt) /\ ~anyActionLoading) =>
    /\ ENABLED ClickEnhance
    /\ ENABLED ClickGenerate

\* every option null, nothing enhanced yet
C19_Witness ==
  /\ runId # Null
  /\ ~TrimIsEmpty(prompt)
  /\ ~anyActionLoading
  /\ options = emptyOptions
  /\ status.enhance = "idle"
  /\ status.script = "success"

\* C20: when an extract request has just succeeded the options are the options
\* of the response and the card with their inputs is shown; a step that changes the options without
\* a response changes one field and leaves runId, prompt and script alone.
C20_OptionsFrame ==
  [][/\ Received("extract")' =>
          /\ options' = response'[1].options
          /\ OptionsCardShown'
     /\ (options' # options /\ response' = Null) =>
          /\ \E f \in OptionFields :
               \A g \in OptionFields \ {f} : options'[g] = options[g]
          /\ runId' = runId
          /\ prompt' = prompt
          /\ script' = script]_vars

\* one field edited after an extract that found every option
C20_Witness ==
  /\ response = Null
  /\ runId # Null
  /\ options.language = Null
  /\ \A g \in OptionFields \ {"language"} : options[g] # Null

\* a script has been received: the last script request succeeded, or the
\* script held is not the initial empty one
ScriptWasReceived == status.script = "success" \/ script # <<>>

\* C21: the scene cards shown are parseScriptToScenes of the script of the
\* latest successful script response, and once a script has been received the
\* output panel shows a scene card or the empty-state text.
C21_CardsOrEmptyState ==
  /\ Received("script") => script = response[1].script
  /\ SceneCards = parseScriptToScenes(script)
  /\ ScriptWasReceived => (SceneCards # <<>> \/ EmptyStateShown)

\* a label of any field written at position a of b, with or without a bullet
AnyLabelAt(b, a) ==
  LET w == IF a <= Len(b) /\ b[a] = STAR THEN SkipWs(b, a + 1) ELSE a
  IN /\ w + 1 <= Len(b)
     /\ Fold(b[w]) \in BoundaryWords
     /\ b[w + 1] = COLON

\* the label of field f at position n of b has no text of its own: after its
\* colon comes whitespace and then the end of the block or the next label
EmptyLabelAt(b, n, f) ==
  /\ OwnLabelAt(b, n, f)
  /\ LET a == SkipWs(b, n + 2)
     IN a > Len(b) \/ AnyLabelAt(b, a)

\* the first position of b where the label of field f is written, or 0
FirstOwnLabel(b, f) ==
  IF \E n \in 1..Len(b) : OwnLabelAt(b, n, f)
  THEN CHOOSE n \in 1..Len(b) :
         OwnLabelAt(b, n, f) /\ \A h \in 1..(n - 1) : ~OwnLabelAt(b, h, f)
  ELSE 0

\* C22: a label with no text of its own before the next label line gives its
\* field the placeholder, never the label and text of the field that follows.
C22_EmptyLabelIsPlaceholder ==
  Done =>
    \A k \in 1..Len(parts) : \A f \in {"visuals", "narration", "mood"} :
      LET body == StripHeading(parts[k])
          n == FirstOwnLabel(body, f)
      IN (n # 0 /\ EmptyLabelAt(body, n, f)) => scenes[k][f] = PLACEHOLDER

\* the label of field f at position n of b stands at the start of its line,
\* after nothing but whitespace and a bullet
LineStartLabel(b, n, f) ==
  /\ OwnLabelAt(b, n, f)
  /\ \A j \in 1..(n - 1) :
       IsWs(b[j]) \/ b[j] = STAR \/ \E h \in (j + 1)..(n - 1) : b[h] = NL

\* the first label line of field f in b, or 0
FirstLabelLine(b, f) ==
  IF \E n \in 1..Len(b) : LineStartLabel(b, n, f)
  THEN CHOOSE n \in 1..Len(b) :
         LineStartLabel(b, n, f) /\ \A h \in 1..(n - 1) : ~LineStartLabel(b, h, f)
  ELSE 0

\* the text on the line of the label at position n, after its colon
OwnLineText(b, n) == Trim(SubSeq(b, n + 2, SkipLine(b, n + 2) - 1))

\* C23: the value of a field is taken from the field's own label line: when
\* the block has a label line of the field with text, the value begins with
\* that text, also when the label word and a colon stand mid-line in the
\* text of an earlier field.
C23_OwnLabelLine ==
  Done =>
    \A k \in 1..Len(parts) : \A f \in {"visuals", "narration", "mood"} :
      LET body == StripHeading(parts[k])
          n == FirstLabelLine(body, f)
          t == OwnLineText(body, n)
      IN (n # 0 /\ t # <<>>) =>
           /\ Len(scenes[k][f]) >= Len(t)
           /\ SubSeq(scenes[k][f], 1, Len(t)) = t

\* the actions whose request is in flight
LoadingActions == {a \in {"extract", "enhance", "script"} : status[a] = "loading"}

\* C24: at most one of the three actions has status "loading".
C24_AtMostOneLoading == Cardinality(LoadingActions) <= 1

\* the last step received the rejection of a request of the given kind
Failed(kind) ==
  /\ response # Null
  /\ response[1].kind = kind
  /\ "error" \in DOMAIN response[1]

C26_PromptWithinLimit ==
  /\ prompt.len <= MAX_CHARS
  /\ promptForGeneration = prompt
  /\ ~wasTruncatedForGeneration
  /\ ~WillBeShortenedNoteShown

\* a script generated from a prompt that was cut to exactly MAX_CHARS
C26_Witness ==
  /\ prompt.len = MAX_CHARS
  /\ runId # Null
  /\ script # <<>>
  /\ Received("script")

\* the X-Session-Id of the j-th request
SessionIdOf(j) == sent[j]["X-Session-Id"]

\* C27: every request carries the same X-Session-Id, whether localStorage
\* works or throws, and that id is the stored one whenever the stored one
\* is a valid UUID.
C27_SameSessionId ==
  /\ \A j \in 1..Len(sent) : \A k \in 1..Len(sent) : SessionIdOf(j) = SessionIdOf(k)
  /\ (sent # <<>> /\ storage # "throws" /\ stored # <<>> /\ IsUuid(stored[1])) =>
       SessionIdOf(Len(sent)) = stored[1]

\* the message postJson rejects with, or none
RejectionMessage ==
  IF result # <<>> /\ result[1].settled.error # <<>>
  THEN <<result[1].settled.error[1].message>>
  ELSE <<>>

\* fetch resolved with a response that is not OK and has a JSON body
NonOkJson ==
  /\ result # <<>>
  /\ result[1].response # <<>>
  /\ ~result[1].response[1].ok
  /\ result[1].response[1].body.json

\* C28: for a non-OK response with a JSON body postJson rejects with exactly
\* body.details, else body.error, else "Request failed", whatever their text;
\* the timeout and network messages come only from a fetch that was aborted
\* or failed; the timer is cleared once the call has settled.
C28_ErrorMessage ==
  /\ NonOkJson =>
       LET body == result[1].response[1].body
       IN RejectionMessage =
            <<Coalesce(body.details, Coalesce(body.error, REQUEST_FAILED))>>
  /\ (RejectionMessage \in {<<TIMEOUT_MESSAGE>>, <<NETWORK_MESSAGE>>}) =>
       result[1].rejection # <<>>
  /\ result # <<>> => timeoutId = "cleared"

====
